---- MODULE Spec2Model ----
(***************************************************************************)
(* The skills overseer daemon (src/src/skills/overseer.py) and the start   *)
(* and notify commands that launch it (src/src/skills/daemon.py).          *)
(*                                                                         *)
(* Spec      one overseer process: its run loop, the connection handlers   *)
(*           asyncio starts for every inbound connection, and the worker   *)
(*           subprocesses the handlers spawn.  A handler runs without      *)
(*           interruption between two awaits, so every action below is the *)
(*           code between two suspension points.                           *)
(* SpecProc  several start/notify invocations racing on the PID marker and *)
(*           the socket path.                                              *)
(* SpecPure  single calls of the transcript reader, the new-token count    *)
(*           and the trigger policy on arguments drawn from bounded sets.  *)
(* SpecLive  Spec with the default configuration and the fairness the      *)
(*           event loop provides.                                          *)
(* SpecTokens the overseer in a session with one growing transcript, with  *)
(*           the total of the tokens the calculation has returned.         *)
(***************************************************************************)
EXTENDS Integers, Sequences, FiniteSets, TLC

\* ---------------------------------------------------------------- bounds
MaxConn == 2          \* connections one overseer accepts in a run
MaxLines == 2         \* lines the growing transcript file can reach
MaxCli == 2           \* concurrent start / notify invocations
TokenThreshold == 2   \* config["token_threshold"]
PromptThreshold == 1  \* config["prompt_threshold"]
MaxRead == 3          \* lines of the transcript file a single call reads
MaxCount == 2         \* largest counter or threshold given to the policy

\* ------------------------------------------------------------ vocabulary
None == "None"             \* Python None for the string-valued fields
Absent == "Absent"         \* key not present in the event object
NoAgent == 0               \* active_agent is None
NoFile == 0                \* path does not exist
SelfPid == 1               \* os.getpid() of the overseer of Spec

Conns == 1..MaxConn        \* connection h spawns worker h, if any
Clis == 1..MaxCli          \* invocation c forks the daemon with pid c, if any
StalePid == MaxCli + 1     \* pid of an overseer that died in an earlier run
\* The daemon forked by invocation d is a process of its own that executes
\* the code of its parent: when run() returns it returns from start() into
\* the caller.  TailOf(d) is that process after run(), Senders are all the
\* processes that can execute is_running and send_event.
TailOf(d) == StalePid + d
Senders == Clis \cup {TailOf(d) : d \in Clis}

EventNames == {"UserPromptSubmit", "Stop", "SessionEnd", "Notification"}
SessionIds == {"s1"}
Cwds == {"d1"}
\* p_long grows during the session, p_short is a shorter transcript,
\* p_missing names no file.
TranscriptPaths == {"p_long", "p_short", "p_missing"}

\* Kinds of transcript line: a human entry, an assistant entry with a text
\* element, an entry of another type, a line that is not JSON, and a line
\* that is empty once stripped.
Blank == "B"
LineKinds == {"H", "A", "O", "X", Blank}
\* the kinds the session appends to p_long while the overseer runs
AppendedKinds == {"H", "X"}

EventsNamed(names) ==
  [hook_event_name : names,
   session_id : SessionIds \cup {Absent},
   transcript_path : TranscriptPaths \cup {Absent},
   cwd : Cwds \cup {Absent}]
Events == EventsNamed(EventNames)

\* Configurations: the keys of DEFAULT_CONFIG, with small thresholds.
Configs ==
  [trigger_mode : {"tokens", "prompts"},
   token_threshold : {TokenThreshold},
   prompt_threshold : {PromptThreshold},
   trigger_on_first_response : BOOLEAN]

VARIABLES
  \* Overseer fields
  running, session_id, transcript_path, cwd, active_agent,
  prompt_count, response_count, tokens_since_last_trigger,
  last_transcript_length, config,
  \* run() position, connection handlers, worker subprocesses
  pc_run, nconn, handlers, worker,
  \* file system
  fs, pidFile, sockFile,
  \* start / notify invocations and the daemons they fork (SpecProc)
  cli, daemon,
  \* arguments and result of one call of a function (SpecPure)
  arg, res

overseerVars ==
  <<running, session_id, transcript_path, cwd, active_agent,
    prompt_count, response_count, tokens_since_last_trigger,
    last_transcript_length, config, pc_run, nconn, handlers, worker, fs>>
procVars == <<cli, daemon>>
pureVars == <<arg, res>>
vars == <<overseerVars, pidFile, sockFile, procVars, pureVars>>

\* ------------------------------------------------------ transcript reader
RECURSIVE SumSeq(_)
SumSeq(s) == IF s = <<>> THEN 0 ELSE Head(s) + SumSeq(Tail(s))

\* json.loads succeeds on the line
ParsesAsJson(line) == line \notin {"X", Blank}

\* the body of the loop over the lines: a stripped line is appended when it
\* is not empty and json.loads does not raise JSONDecodeError
Appended(line) == line # Blank /\ ParsesAsJson(line)

\* Faulty variant of ReadTranscript: the first JSONDecodeError ends the loop.
ReadTranscript_StopsAtBadLine(path, files) ==
  IF path = None THEN <<>>
  ELSE IF path \notin DOMAIN files THEN <<>>
  ELSE LET lines == files[path]
           bad == {i \in 1..Len(lines) :
                     lines[i] # Blank /\ ~ParsesAsJson(lines[i])}
           read == IF bad = {} THEN Len(lines)
                   ELSE (CHOOSE i \in bad : \A j \in bad : i <= j) - 1
       IN SelectSeq(SubSeq(lines, 1, read), Appended)

\* _read_transcript: no path or no file gives [], unparsable lines are
\* skipped, the others are kept in file order.
ReadTranscript(path, files) ==
  IF path = None THEN <<>>
  ELSE IF path \notin DOMAIN files THEN <<>>
  ELSE SelectSeq(files[path], Appended)

\* tokens one entry adds in _calculate_new_tokens: the content of a human
\* entry, the text elements of an assistant entry, nothing for other types.
EntryTokens(msg) ==
  CASE msg = "H" -> 1
    [] msg = "A" -> 2
    [] OTHER -> 0

\* Faulty variant of CalculateNewTokens: the watermark follows the current length
\* even when the transcript read is shorter.
CalculateNewTokens_NoGuard(path, files, last) ==
  LET messages == ReadTranscript(path, files)
      current_length == Len(messages)
  IN IF current_length <= last
       THEN <<0, current_length>>
       ELSE LET new_messages == SubSeq(messages, last + 1, current_length)
            IN <<SumSeq([i \in 1..Len(new_messages) |->
                           EntryTokens(new_messages[i])]),
                 current_length>>

\* Faulty variant of CalculateNewTokens: the watermark is not advanced after
\* new entries were counted.
CalculateNewTokens_NoAdvance(path, files, last) ==
  LET messages == ReadTranscript(path, files)
      current_length == Len(messages)
  IN IF current_length <= last
       THEN <<0, last>>
       ELSE LET new_messages == SubSeq(messages, last + 1, current_length)
            IN <<SumSeq([i \in 1..Len(new_messages) |->
                           EntryTokens(new_messages[i])]),
                 last>>

\* Faulty variant of CalculateNewTokens: the slice of new entries starts one
\* entry too late.
CalculateNewTokens_SliceOffByOne(path, files, last) ==
  LET messages == ReadTranscript(path, files)
      current_length == Len(messages)
  IN IF current_length <= last
       THEN <<0, last>>
       ELSE LET new_messages == SubSeq(messages, last + 2, current_length)
            IN <<SumSeq([i \in 1..Len(new_messages) |->
                           EntryTokens(new_messages[i])]),
                 current_length>>

\* _calculate_new_tokens as a pair <<returned tokens, new watermark>>
CalculateNewTokens(path, files, last) ==
  LET messages == ReadTranscript(path, files)
      current_length == Len(messages)
  IN IF current_length <= last
       THEN <<0, last>>
       ELSE LET new_messages == SubSeq(messages, last + 1, current_length)
            IN <<SumSeq([i \in 1..Len(new_messages) |->
                           EntryTokens(new_messages[i])]),
                 current_length>>

\* --------------------------------------------------------- trigger policy
\* Faulty variant of ShouldTriggerAgent: the first-response rule tests
\* response_count >= 1.
ShouldTriggerAgent_EveryResponse(cfg, event_name, responses, prompts, tokens) ==
  IF cfg.trigger_on_first_response /\ event_name = "Stop" /\ responses >= 1
    THEN TRUE
  ELSE IF cfg.trigger_mode = "tokens"
    THEN tokens >= cfg.token_threshold
  ELSE prompts >= cfg.prompt_threshold

\* Faulty variant of ShouldTriggerAgent: either threshold fires in either
\* mode.
ShouldTriggerAgent_Either(cfg, event_name, responses, prompts, tokens) ==
  IF cfg.trigger_on_first_response /\ event_name = "Stop" /\ responses = 1
    THEN TRUE
  ELSE \/ tokens >= cfg.token_threshold
       \/ prompts >= cfg.prompt_threshold

\* _should_trigger_agent
ShouldTriggerAgent(cfg, event_name, responses, prompts, tokens) ==
  IF cfg.trigger_on_first_response /\ event_name = "Stop" /\ responses = 1
    THEN TRUE
  ELSE IF cfg.trigger_mode = "tokens"
    THEN tokens >= cfg.token_threshold
  ELSE prompts >= cfg.prompt_threshold

\* ------------------------------------------------------------- the overseer
\* A connection handler.  pc: "unused" | "awaiting" (suspended in
\* _spawn_agent on run_in_executor; the executor thread runs communicate() on
\* the worker this handler spawned, the lambda being evaluated when it is
\* submitted) | "done" (response written) | "cancelled" (task cancelled when
\* the event loop closes) | "failed" (task ended by an exception outside the
\* try block).  name is the event being processed, resp the response written.
\* worker[h] is the subprocess of handler h: "none" (no _spawn_agent call),
\* "spawn_failed" (Popen raised), "alive", "exit0" / "exit1" (exited, not
\* yet collected), "killed", "reaped" (collected by communicate or wait).
NewHandler == [pc |-> "unused", name |-> "", resp |-> "none"]
\* The handler has written its response and closed the connection.
Responded(resp) == [NewHandler EXCEPT !.pc = "done", !.resp = resp]

InFlight(h) == handlers[h].pc = "awaiting"
Alive(w) == worker[w] = "alive"

\* Overseer.__init__, before run() is entered.
Init ==
  /\ running = FALSE
  /\ session_id = None
  /\ transcript_path = None
  /\ cwd = None
  /\ active_agent = NoAgent
  /\ prompt_count = 0
  /\ response_count = 0
  /\ tokens_since_last_trigger = 0
  /\ last_transcript_length = 0
  /\ config \in Configs
  /\ pc_run = "constructed"
  /\ nconn = 0
  /\ handlers = [h \in Conns |-> NewHandler]
  /\ worker = [h \in Conns |-> "none"]
  /\ fs = [p \in {"p_long", "p_short"} |->
             IF p = "p_short" THEN <<"X", "A">> ELSE <<>>]
  /\ pidFile = NoFile
  /\ sockFile = NoFile
  /\ cli = <<>>
  /\ daemon = <<>>
  /\ arg = <<>>
  /\ res = <<>>

\* run() up to the accept loop: running flag, PID marker, signal handlers,
\* socket unlinked and bound.
RunStart ==
  /\ pc_run = "constructed"
  /\ running' = TRUE
  /\ pidFile' = SelfPid
  /\ sockFile' = SelfPid
  /\ pc_run' = "serving"
  /\ UNCHANGED <<session_id, transcript_path, cwd, active_agent, prompt_count,
                 response_count, tokens_since_last_trigger,
                 last_transcript_length, config, nconn, handlers, worker, fs,
                 procVars, pureVars>>

\* handle_signal, installed for SIGTERM and SIGINT.
HandleSignal ==
  /\ pc_run = "serving"
  /\ running
  /\ running' = FALSE
  /\ UNCHANGED <<session_id, transcript_path, cwd, active_agent, prompt_count,
                 response_count, tokens_since_last_trigger,
                 last_transcript_length, config, pc_run, nconn, handlers,
                 worker, fs, pidFile, sockFile, procVars, pureVars>>

\* The session writes one more line to its transcript.
AppendTranscript(line) ==
  /\ Len(fs["p_long"]) < MaxLines
  /\ fs' = [fs EXCEPT !["p_long"] = Append(@, line)]
  /\ UNCHANGED <<running, session_id, transcript_path, cwd, active_agent,
                 prompt_count, response_count, tokens_since_last_trigger,
                 last_transcript_length, config, pc_run, nconn, handlers,
                 worker, pidFile, sockFile, procVars, pureVars>>

\* _process_event, the session fields an event sets.
EventSessionId(e, old) == IF e.session_id = Absent THEN None ELSE e.session_id
EventTranscriptPath(e, old) ==
  IF e.transcript_path = Absent THEN old ELSE e.transcript_path
EventCwd(e, old) == IF e.cwd = Absent THEN old ELSE e.cwd

\* Faulty variant of PromptCountAfter: a Stop event clears the prompt counter.
PromptCountAfter_ResetOnStop(event_name, prompts) ==
  IF event_name = "UserPromptSubmit" THEN prompts + 1
  ELSE IF event_name = "Stop" THEN 0
  ELSE prompts

\* _process_event, the counters after the branch on hook_event_name.
PromptCountAfter(event_name, prompts) ==
  IF event_name = "UserPromptSubmit" THEN prompts + 1 ELSE prompts
ResponseCountAfter(event_name, responses) ==
  IF event_name = "Stop" THEN responses + 1 ELSE responses

\* Faulty variant of Dispatches: SessionEnd is subject to the trigger policy.
Dispatches_PolicyOnly(cfg, event_name, responses, prompts, tokens) ==
  /\ event_name \in {"Stop", "SessionEnd"}
  /\ ShouldTriggerAgent(cfg, event_name, responses, prompts, tokens)

\* Faulty variant of Dispatches: a prompt is subject to the trigger policy
\* like a response.
Dispatches_OnPrompt(cfg, event_name, responses, prompts, tokens) ==
  \/ event_name = "SessionEnd"
  \/ /\ event_name \in {"Stop", "UserPromptSubmit"}
     /\ ShouldTriggerAgent(cfg, event_name, responses, prompts, tokens)

\* _process_event, the branch on hook_event_name: does the event call
\* _spawn_agent?  responses and tokens are the values after this event's
\* own updates.
Dispatches(cfg, event_name, responses, prompts, tokens) ==
  \/ event_name = "SessionEnd"
  \/ /\ event_name = "Stop"
     /\ ShouldTriggerAgent(cfg, event_name, responses, prompts, tokens)

\* Faulty variant of AfterSpawn: a worker that did not exit with status 0
\* is reported to the sender.
AfterSpawn_FailureSurfaced(h) ==
  /\ handlers' = [handlers EXCEPT ![h] =
                    Responded(IF worker[h] = "exit0" THEN "ok" ELSE "error")]
  /\ running' = IF handlers[h].name = "SessionEnd" THEN FALSE ELSE running

\* What _process_event and _handle_client do once _spawn_agent has returned:
\* SessionEnd clears the running flag, the response is "ok".
AfterSpawn(h) ==
  /\ handlers' = [handlers EXCEPT ![h] = Responded("ok")]
  /\ running' = IF handlers[h].name = "SessionEnd" THEN FALSE ELSE running

\* _handle_client for a JSON event, from the read to its first suspension:
\* _process_event's state updates and, if the event dispatches, _spawn_agent
\* up to run_in_executor.  Popen may fail (spawned = FALSE).
ProcessEvent(e) ==
  /\ pc_run = "serving"
  /\ nconn < MaxConn
  /\ LET h == nconn + 1
         name == e.hook_event_name
         path == EventTranscriptPath(e, transcript_path)
         calc == CalculateNewTokens(path, fs, last_transcript_length)
         tokens == tokens_since_last_trigger + calc[1]
         responses == ResponseCountAfter(name, response_count)
         started == [NewHandler EXCEPT !.name = name]
     IN /\ nconn' = h
        /\ session_id' = EventSessionId(e, session_id)
        /\ transcript_path' = path
        /\ cwd' = EventCwd(e, cwd)
        /\ last_transcript_length' = calc[2]
        /\ tokens_since_last_trigger' = tokens
        /\ prompt_count' = PromptCountAfter(name, prompt_count)
        /\ response_count' = responses
        /\ IF Dispatches(config, name, responses, prompt_count, tokens)
             THEN \E spawned \in BOOLEAN :
                    IF spawned
                      THEN /\ active_agent' = h
                           /\ worker' = [worker EXCEPT ![h] = "alive"]
                           /\ handlers' = [handlers EXCEPT ![h] =
                                [started EXCEPT !.pc = "awaiting"]]
                           /\ UNCHANGED running
                      ELSE /\ active_agent' = NoAgent
                           /\ worker' = [worker EXCEPT ![h] = "spawn_failed"]
                           /\ handlers' = [handlers EXCEPT ![h] =
                                              Responded("ok")]
                           /\ running' = IF name = "SessionEnd" THEN FALSE
                                         ELSE running
             ELSE /\ handlers' = [handlers EXCEPT ![h] = Responded("ok")]
                  /\ UNCHANGED <<active_agent, worker, running>>
  /\ UNCHANGED <<config, pc_run, fs, pidFile, sockFile, procVars>>

HandleClient(e) == ProcessEvent(e) /\ UNCHANGED pureVars

\* _handle_client for a payload json.loads rejects.
HandleClientBadJson ==
  /\ pc_run = "serving"
  /\ nconn < MaxConn
  /\ nconn' = nconn + 1
  /\ handlers' = [handlers EXCEPT ![nconn + 1] = Responded("error")]
  /\ UNCHANGED <<running, session_id, transcript_path, cwd, active_agent,
                 prompt_count, response_count, tokens_since_last_trigger,
                 last_transcript_length, config, pc_run, worker, fs, pidFile,
                 sockFile, procVars, pureVars>>

\* _handle_client for a payload that is not UTF-8: data.decode() raises
\* before the try block is entered, so the handler task ends with the
\* exception and nothing is written to the connection.
HandleClientUndecodable ==
  /\ pc_run = "serving"
  /\ nconn < MaxConn
  /\ nconn' = nconn + 1
  /\ handlers' = [handlers EXCEPT ![nconn + 1] =
                                   [NewHandler EXCEPT !.pc = "failed"]]
  /\ UNCHANGED <<running, session_id, transcript_path, cwd, active_agent,
                 prompt_count, response_count, tokens_since_last_trigger,
                 last_transcript_length, config, pc_run, worker, fs, pidFile,
                 sockFile, procVars, pureVars>>

\* A worker subprocess exits by itself with status 0 or non-zero.
AgentExit(w, status) ==
  /\ Alive(w)
  /\ worker' = [worker EXCEPT ![w] = status]
  /\ UNCHANGED <<running, session_id, transcript_path, cwd, active_agent,
                 prompt_count, response_count, tokens_since_last_trigger,
                 last_transcript_length, config, pc_run, nconn, handlers, fs,
                 pidFile, sockFile, procVars, pureVars>>

\* communicate() returned because the worker has ended: the counter reset,
\* the returncode read through self.active_agent (an AttributeError, caught
\* by "except Exception", when another handler has cleared the field), the
\* finally clause, and the rest of _process_event and _handle_client.
AgentReturns(h) ==
  /\ handlers[h].pc = "awaiting"
  /\ ~Alive(h)
  /\ tokens_since_last_trigger' = 0
  /\ prompt_count' = 0
  /\ worker' = [worker EXCEPT ![h] = "reaped"]
  /\ active_agent' = NoAgent
  /\ AfterSpawn(h)
  /\ UNCHANGED <<session_id, transcript_path, cwd, response_count,
                 last_transcript_length, config, pc_run, nconn, fs,
                 pidFile, sockFile, procVars, pureVars>>

\* communicate(timeout=300) raised TimeoutExpired: the worker the field
\* refers to at that moment is killed, the counters are left as they are.
AgentTimeout(h) ==
  /\ handlers[h].pc = "awaiting"
  /\ Alive(h)
  /\ worker' = IF active_agent # NoAgent /\ Alive(active_agent)
                 THEN [worker EXCEPT ![active_agent] = "killed"]
                 ELSE worker
  /\ active_agent' = NoAgent
  /\ AfterSpawn(h)
  /\ UNCHANGED <<session_id, transcript_path, cwd, prompt_count,
                 response_count, tokens_since_last_trigger,
                 last_transcript_length, config, pc_run, nconn, fs, pidFile,
                 sockFile, procVars, pureVars>>

\* The accept loop sees running = False and leaves "async with server":
\* the server stops accepting.
RunLoopExit ==
  /\ pc_run = "serving"
  /\ ~running
  /\ pc_run' = "closing"
  /\ UNCHANGED <<running, session_id, transcript_path, cwd, active_agent,
                 prompt_count, response_count, tokens_since_last_trigger,
                 last_transcript_length, config, nconn, handlers, worker, fs,
                 pidFile, sockFile, procVars, pureVars>>

\* Faulty variant of Cleanup: the PID marker is left behind.
Cleanup_MarkerLeft ==
  /\ pc_run = "closing"
  /\ worker' = IF active_agent # NoAgent /\ Alive(active_agent)
                 THEN [worker EXCEPT ![active_agent] = "reaped"]
                 ELSE worker
  /\ sockFile' = NoFile
  /\ handlers' = [h \in Conns |->
                    IF InFlight(h)
                      THEN [NewHandler EXCEPT !.pc = "cancelled"]
                      ELSE handlers[h]]
  /\ active_agent' = IF \E h \in Conns : InFlight(h) THEN NoAgent
                     ELSE active_agent
  /\ pc_run' = "stopped"
  /\ UNCHANGED <<running, session_id, transcript_path, cwd, prompt_count,
                 response_count, tokens_since_last_trigger,
                 last_transcript_length, config, nconn, fs, pidFile,
                 procVars, pureVars>>

\* _cleanup (the active agent, if still running, is terminated, waited for
\* and killed after 5 s), then run() returns and asyncio.run cancels the
\* handler tasks still pending (their finally clause clears active_agent).
Cleanup ==
  /\ pc_run = "closing"
  /\ worker' = IF active_agent # NoAgent /\ Alive(active_agent)
                 THEN [worker EXCEPT ![active_agent] = "reaped"]
                 ELSE worker
  /\ pidFile' = NoFile
  /\ sockFile' = NoFile
  /\ handlers' = [h \in Conns |->
                    IF InFlight(h)
                      THEN [NewHandler EXCEPT !.pc = "cancelled"]
                      ELSE handlers[h]]
  /\ active_agent' = IF \E h \in Conns : InFlight(h) THEN NoAgent
                     ELSE active_agent
  /\ pc_run' = "stopped"
  /\ UNCHANGED <<running, session_id, transcript_path, cwd, prompt_count,
                 response_count, tokens_since_last_trigger,
                 last_transcript_length, config, nconn, fs, procVars, pureVars>>

Next ==
  \/ RunStart
  \/ HandleSignal
  \/ \E line \in AppendedKinds : AppendTranscript(line)
  \/ \E e \in Events : HandleClient(e)
  \/ HandleClientBadJson
  \/ HandleClientUndecodable
  \/ \E w \in Conns, status \in {"exit0", "exit1"} : AgentExit(w, status)
  \/ \E h \in Conns : AgentReturns(h)
  \/ \E h \in Conns : AgentTimeout(h)
  \/ RunLoopExit
  \/ Cleanup

Spec == Init /\ [][Next]_vars

\* Scheduling of the event loop.  The accept loop wakes every 0.1 s and
\* tests the running flag; communicate(timeout=300) ends when the worker
\* ends or after 300 s, and the handler is then resumed; "async with server"
\* is left at the latest when no connection is open any more (wait_closed
\* returns at once before Python 3.12 and waits for the open connections
\* from 3.12 on), and _cleanup is straight-line code whose only wait is
\* bounded by 5 s.  Nothing is assumed about when a worker exits or when a
\* client connects.
Fairness ==
  /\ WF_vars(RunLoopExit)
  /\ WF_vars(Cleanup /\ \A h \in Conns : ~InFlight(h))
  /\ \A h \in Conns : WF_vars(AgentReturns(h))
  /\ \A h \in Conns : WF_vars(AgentTimeout(h))

\* The overseer constructed without a config file: DEFAULT_CONFIG.
InitLive ==
  /\ Init
  /\ config = [trigger_mode |-> "tokens", token_threshold |-> TokenThreshold,
               prompt_threshold |-> PromptThreshold,
               trigger_on_first_response |-> TRUE]

SpecLive == InitLive /\ [][Next]_vars /\ Fairness

\* --------------------------------------------- start, notify, the singleton
\* cli[c]: one invocation of "skills daemon start" or "skills daemon notify".
\*   cmd   the command
\*   site  the function of daemon.py / send_event it is in
\*         ("notify" | "start" | "send" | "done")
\*   step  its position there: the steps of is_running ("exists", "read",
\*         "unlink_pid", "unlink_sock"), "fork", "connect"
\*   answer  what send_event returned: "none" (not called or not returned),
\*         "ok", "no_answer"
\* daemon[d]: the process forked by invocation d: "none", "forked" (daemonize
\* done, Overseer constructed), "wrote_pid", "unlinked", "serving", "exited"
\* (run returned after _cleanup), "crashed" (killed without cleanup).
LiveDaemon(d) == daemon[d] \in {"forked", "wrote_pid", "unlinked", "serving"}

\* os.kill(pid, 0) succeeds
ProcessExists(pid) == pid \in Clis /\ LiveDaemon(pid)

InitProc ==
  /\ running = FALSE
  /\ session_id = None
  /\ transcript_path = None
  /\ cwd = None
  /\ active_agent = NoAgent
  /\ prompt_count = 0
  /\ response_count = 0
  /\ tokens_since_last_trigger = 0
  /\ last_transcript_length = 0
  /\ config = [trigger_mode |-> "tokens", token_threshold |-> TokenThreshold,
               prompt_threshold |-> PromptThreshold,
               trigger_on_first_response |-> TRUE]
  /\ pc_run = "constructed"
  /\ nconn = 0
  /\ handlers = [h \in Conns |-> NewHandler]
  /\ worker = [h \in Conns |-> "none"]
  /\ fs = [p \in {"p_long", "p_short"} |-> <<>>]
  \* a crashed overseer may have left its marker and its socket behind
  /\ pidFile \in {NoFile, StalePid}
  /\ sockFile \in {NoFile, StalePid}
  /\ \E cmds \in [Clis -> {"start", "notify"}] :
       cli = [p \in Senders |->
                [cmd |-> IF p \in Clis THEN cmds[p] ELSE "notify",
                 site |-> "idle", step |-> "idle", answer |-> "none"]]
  /\ daemon = [d \in Clis |-> "none"]
  /\ arg = <<>>
  /\ res = <<>>

At(c, site, step) == cli[c].site = site /\ cli[c].step = step
Goto(c, site, step) == cli' = [cli EXCEPT ![c].site = site, ![c].step = step]

\* The command is invoked: start() and notify() both begin with is_running.
Invoke(c) ==
  /\ At(c, "idle", "idle")
  /\ Goto(c, cli[c].cmd, "exists")
  /\ UNCHANGED <<overseerVars, pureVars, pidFile, sockFile, daemon>>

\* Faulty variant of IsRunningReturns: start forks whatever is_running
\* returned.
IsRunningReturns_StartForks(c, value) ==
  LET site == cli[c].site
  IN IF site = "notify"
       THEN IF value THEN Goto(c, "send", "exists")
            ELSE Goto(c, "start", "exists")
     ELSE IF site = "start"
       THEN Goto(c, "start", "fork")
     ELSE IF value THEN Goto(c, "send", "connect")
          ELSE cli' = [cli EXCEPT ![c].site = "done", ![c].step = "done",
                                  ![c].answer = "no_answer"]

\* Where the caller of is_running continues with the value it returned.
\* notify: send at once if running, else call start.  start: return if
\* running (notify then sleeps and sends), else fork.  send_event: return
\* None if not running, else connect.
IsRunningReturns(c, value) ==
  LET site == cli[c].site
  IN IF site = "notify"
       THEN IF value THEN Goto(c, "send", "exists")
            ELSE Goto(c, "start", "exists")
     ELSE IF site = "start"
       THEN IF value
              THEN IF cli[c].cmd = "notify" THEN Goto(c, "send", "exists")
                   ELSE Goto(c, "done", "done")
              ELSE Goto(c, "start", "fork")
     ELSE IF value THEN Goto(c, "send", "connect")
          ELSE cli' = [cli EXCEPT ![c].site = "done", ![c].step = "done",
                                  ![c].answer = "no_answer"]

\* is_running: PID_FILE.exists()
IsRunningExists(c) ==
  /\ cli[c].site \in {"notify", "start", "send"}
  /\ cli[c].step = "exists"
  /\ IF pidFile = NoFile THEN IsRunningReturns(c, FALSE)
     ELSE Goto(c, cli[c].site, "read")
  /\ UNCHANGED <<overseerVars, pureVars, pidFile, sockFile, daemon>>

\* is_running: read_text and os.kill(pid, 0).  A marker removed since the
\* exists() test or naming a dead process leads to _cleanup_stale.
IsRunningProbe(c) ==
  /\ cli[c].site \in {"notify", "start", "send"}
  /\ cli[c].step = "read"
  /\ IF pidFile # NoFile /\ ProcessExists(pidFile)
       THEN IsRunningReturns(c, TRUE)
       ELSE Goto(c, cli[c].site, "unlink_pid")
  /\ UNCHANGED <<overseerVars, pureVars, pidFile, sockFile, daemon>>

\* _cleanup_stale: PID_FILE.unlink(missing_ok=True)
CleanupStalePid(c) ==
  /\ cli[c].step = "unlink_pid"
  /\ pidFile' = NoFile
  /\ Goto(c, cli[c].site, "unlink_sock")
  /\ UNCHANGED <<overseerVars, pureVars, sockFile, daemon>>

\* Faulty variant of CleanupStaleSocket: the socket file is left in place.
CleanupStaleSocket_SocketLeft(c) ==
  /\ cli[c].step = "unlink_sock"
  /\ IsRunningReturns(c, FALSE)
  /\ UNCHANGED <<overseerVars, pureVars, pidFile, sockFile, daemon>>

\* _cleanup_stale: SOCKET_PATH.unlink(missing_ok=True); is_running returns
\* False.
CleanupStaleSocket(c) ==
  /\ cli[c].step = "unlink_sock"
  /\ sockFile' = NoFile
  /\ IsRunningReturns(c, FALSE)
  /\ UNCHANGED <<overseerVars, pureVars, pidFile, daemon>>

\* start: os.fork().  The parent returns to its caller (notify sleeps
\* 0.2 s and goes on to send_event); the child daemonizes and constructs
\* the Overseer.
Fork(c) ==
  /\ At(c, "start", "fork")
  /\ daemon' = [daemon EXCEPT ![c] = "forked"]
  /\ IF cli[c].cmd = "notify" THEN Goto(c, "send", "exists")
     ELSE Goto(c, "done", "done")
  /\ UNCHANGED <<overseerVars, pureVars, pidFile, sockFile>>

\* run: self.running = True, _write_pid
DaemonWritePid(d) ==
  /\ daemon[d] = "forked"
  /\ pidFile' = d
  /\ daemon' = [daemon EXCEPT ![d] = "wrote_pid"]
  /\ UNCHANGED <<overseerVars, pureVars, sockFile, cli>>

\* run: SOCKET_PATH.unlink(missing_ok=True)
DaemonUnlinkSocket(d) ==
  /\ daemon[d] = "wrote_pid"
  /\ sockFile' = NoFile
  /\ daemon' = [daemon EXCEPT ![d] = "unlinked"]
  /\ UNCHANGED <<overseerVars, pureVars, pidFile, cli>>

\* run: asyncio.start_unix_server binds the path (a socket file found there
\* is replaced) and the accept loop starts.
DaemonBind(d) ==
  /\ daemon[d] = "unlinked"
  /\ sockFile' = d
  /\ daemon' = [daemon EXCEPT ![d] = "serving"]
  /\ UNCHANGED <<overseerVars, pureVars, pidFile, cli>>

\* run: the loop ends (signal or SessionEnd) and _cleanup unlinks the
\* marker and the socket path, whoever wrote them.  asyncio.run and start()
\* return: under "daemon start" the process ends, under "daemon notify" it
\* is back in notify(), sleeps 0.2 s and calls send_event with the event of
\* the invocation that forked it.
DaemonStop(d) ==
  /\ daemon[d] = "serving"
  /\ pidFile' = NoFile
  /\ sockFile' = NoFile
  /\ daemon' = [daemon EXCEPT ![d] = "exited"]
  /\ cli' = IF cli[d].cmd = "notify"
              THEN [cli EXCEPT ![TailOf(d)].site = "send",
                               ![TailOf(d)].step = "exists"]
              ELSE cli
  /\ UNCHANGED <<overseerVars, pureVars>>

\* The daemon process is killed (SIGKILL, power loss): nothing is cleaned.
DaemonCrash(d) ==
  /\ LiveDaemon(d)
  /\ daemon' = [daemon EXCEPT ![d] = "crashed"]
  /\ UNCHANGED <<overseerVars, pureVars, pidFile, sockFile, cli>>

\* send_event: open_unix_connection, write the event, read the response.
\* No socket file (FileNotFoundError) or no listener behind it
\* (ConnectionRefusedError) gives None.
SendEventConnect(c) ==
  /\ At(c, "send", "connect")
  /\ cli' = [cli EXCEPT ![c].site = "done", ![c].step = "done",
                        ![c].answer =
                          IF sockFile \in Clis /\ daemon[sockFile] = "serving"
                            THEN "ok" ELSE "no_answer"]
  /\ UNCHANGED <<overseerVars, pureVars, pidFile, sockFile, daemon>>

NextProc ==
  \/ \E c \in Clis : Invoke(c)
  \/ \E c \in Senders : IsRunningExists(c)
  \/ \E c \in Senders : IsRunningProbe(c)
  \/ \E c \in Senders : CleanupStalePid(c)
  \/ \E c \in Senders : CleanupStaleSocket(c)
  \/ \E c \in Clis : Fork(c)
  \/ \E d \in Clis : DaemonWritePid(d)
  \/ \E d \in Clis : DaemonUnlinkSocket(d)
  \/ \E d \in Clis : DaemonBind(d)
  \/ \E d \in Clis : DaemonStop(d)
  \/ \E d \in Clis : DaemonCrash(d)
  \/ \E c \in Senders : SendEventConnect(c)

SpecProc == InitProc /\ [][NextProc]_vars

\* ------------------------------------------------ one session, one file
\* SpecTokens is the overseer of Spec in a session whose events all name
\* the same transcript, a file that starts with valid entries and only
\* grows by valid entries.  res[1] adds up what _calculate_new_tokens has
\* returned so far.
ValidKinds == {"H", "A", "O"}
SessionEvents ==
  [hook_event_name : EventNames,
   session_id : {Absent},
   transcript_path : {"p_long", Absent},
   cwd : {Absent}]

InitTokens ==
  /\ running = FALSE
  /\ session_id = None
  /\ transcript_path = None
  /\ cwd = None
  /\ active_agent = NoAgent
  /\ prompt_count = 0
  /\ response_count = 0
  /\ tokens_since_last_trigger = 0
  /\ last_transcript_length = 0
  /\ config \in Configs
  /\ pc_run = "constructed"
  /\ nconn = 0
  /\ handlers = [h \in Conns |-> NewHandler]
  /\ worker = [h \in Conns |-> "none"]
  /\ \E lines \in UNION {[1..k -> ValidKinds] : k \in 0..MaxLines} :
       fs = [q \in {"p_long"} |-> lines]
  /\ pidFile = NoFile
  /\ sockFile = NoFile
  /\ cli = <<>>
  /\ daemon = <<>>
  /\ arg = <<>>
  /\ res = <<0>>

\* _process_event, with the value new_tokens of lines 299-300 added to the
\* running total
ProcessEventCounted(e) ==
  /\ ProcessEvent(e)
  /\ res' = <<res[1] + (tokens_since_last_trigger'
                          - tokens_since_last_trigger)>>
  /\ arg' = arg

NextTokens ==
  \/ RunStart
  \/ HandleSignal
  \/ \E line \in ValidKinds : AppendTranscript(line)
  \/ \E e \in SessionEvents : ProcessEventCounted(e)
  \/ \E w \in Conns, status \in {"exit0", "exit1"} : AgentExit(w, status)
  \/ \E h \in Conns : AgentReturns(h)
  \/ \E h \in Conns : AgentTimeout(h)
  \/ RunLoopExit
  \/ Cleanup

SpecTokens == InitTokens /\ [][NextTokens]_vars

\* ------------------------------------------- single calls of the functions
\* SpecPure calls one function of the overseer once on arguments drawn from
\* bounded sets: _read_transcript on a file, _calculate_new_tokens twice in
\* a row on an unchanged file, _should_trigger_agent on a configuration and
\* counters.
LinesUpTo(n) == UNION {[1..k -> LineKinds] : k \in 0..n}
ReadPaths == {None, "p_missing", "p_file"}
ReadArgs == [fn : {"read"}, path : ReadPaths, lines : LinesUpTo(MaxRead)]
CalcArgs ==
  [fn : {"calc"}, path : ReadPaths, lines : LinesUpTo(MaxRead),
   last : 0..MaxRead]
\* config.json may hold any trigger_mode string and any thresholds
PolicyConfigs ==
  [trigger_mode : {"tokens", "prompts", "other"},
   token_threshold : 0..MaxCount,
   prompt_threshold : 0..MaxCount,
   trigger_on_first_response : BOOLEAN]
PolicyArgs ==
  [fn : {"policy"}, cfg : PolicyConfigs, event_name : EventNames,
   responses : 0..MaxCount, prompts : 0..MaxCount, tokens : 0..MaxCount]

\* the file system of a call: p_file holds the lines, p_missing names no file
FilesOf(a) == [q \in {"p_file"} |-> a.lines]

InitPure ==
  /\ running = FALSE
  /\ session_id = None
  /\ transcript_path = None
  /\ cwd = None
  /\ active_agent = NoAgent
  /\ prompt_count = 0
  /\ response_count = 0
  /\ tokens_since_last_trigger = 0
  /\ last_transcript_length = 0
  /\ config \in Configs
  /\ pc_run = "constructed"
  /\ nconn = 0
  /\ handlers = [h \in Conns |-> NewHandler]
  /\ worker = [h \in Conns |-> "none"]
  /\ fs = <<>>
  /\ pidFile = NoFile
  /\ sockFile = NoFile
  /\ cli = <<>>
  /\ daemon = <<>>
  /\ arg \in ReadArgs \cup CalcArgs \cup PolicyArgs
  /\ res = <<>>

\* one call of _read_transcript
ReadTranscriptCall ==
  /\ arg.fn = "read"
  /\ res = <<>>
  /\ res' = <<ReadTranscript(arg.path, FilesOf(arg))>>
  /\ UNCHANGED <<overseerVars, pidFile, sockFile, procVars, arg>>

\* two calls of _calculate_new_tokens in a row, the second one starting from
\* the watermark the first one left; each is <<returned tokens, watermark>>
CalculateNewTokensTwice ==
  /\ arg.fn = "calc"
  /\ res = <<>>
  /\ LET first == CalculateNewTokens(arg.path, FilesOf(arg), arg.last)
         second == CalculateNewTokens(arg.path, FilesOf(arg), first[2])
     IN res' = <<first, second>>
  /\ UNCHANGED <<overseerVars, pidFile, sockFile, procVars, arg>>

\* one call of _should_trigger_agent
ShouldTriggerAgentCall ==
  /\ arg.fn = "policy"
  /\ res = <<>>
  /\ res' = <<ShouldTriggerAgent(arg.cfg, arg.event_name, arg.responses,
                                 arg.prompts, arg.tokens)>>
  /\ UNCHANGED <<overseerVars, pidFile, sockFile, procVars, arg>>

NextPure ==
  \/ ReadTranscriptCall
  \/ CalculateNewTokensTwice
  \/ ShouldTriggerAgentCall

SpecPure == InitPure /\ [][NextPure]_vars

\* ------------------------------------------------------------------ claims
\* The step in which handler h runs _process_event called _spawn_agent.
SpawnCalled(h) == worker[h] = "none" /\ worker'[h] \in {"alive", "spawn_failed"}
\* The step in which the _spawn_agent call of handler h returns to
\* _process_event after its await.
SpawnReturns(h) == handlers[h].pc = "awaiting" /\ handlers'[h].pc = "done"

\* C1: at most one worker subprocess spawned by the overseer is alive in any
\* reachable state.
C1_AtMostOneWorkerAlive == Cardinality({w \in Conns : Alive(w)}) <= 1

\* C2: there are never two live overseer processes that have passed the
\* is_running check, written the PID marker and bound the socket path.
C2_AtMostOneDaemon == Cardinality({d \in Clis : daemon[d] = "serving"}) <= 1

\* C3: when a worker dispatch completes (exit 0, non-zero exit or timeout and
\* kill), tokens_since_last_trigger and prompt_count are both 0 right after.
C3_CountersZeroAfterDispatch ==
  [][\A h \in Conns :
       SpawnReturns(h) =>
         tokens_since_last_trigger' = 0 /\ prompt_count' = 0]_vars

\* C4: an event that lacks session_id (transcript_path, cwd) leaves the
\* stored session identifier (transcript location, working directory) as it
\* was.
C4_AbsentFieldsKept ==
  [][\A e \in Events :
       (nconn' # nconn /\ HandleClient(e)) =>
         /\ e.session_id = Absent => session_id' = session_id
         /\ e.transcript_path = Absent => transcript_path' = transcript_path
         /\ e.cwd = Absent => cwd' = cwd]_vars

\* The threshold rule of the configured mode, on the counters as the policy
\* check of a Stop event sees them.
ThresholdRule(cfg, prompts, tokens) ==
  IF cfg.trigger_mode = "tokens" THEN tokens >= cfg.token_threshold
  ELSE prompts >= cfg.prompt_threshold

\* C5: with trigger_on_first_response, the first Stop event processed
\* dispatches a worker whatever the counters are, and a later Stop event
\* dispatches only if the threshold rule of the mode holds.
C5_FirstResponseOnce ==
  [][\A e \in EventsNamed({"Stop"}) :
       (/\ config.trigger_on_first_response
        /\ nconn' # nconn
        /\ HandleClient(e))
       => LET h == nconn'
          IN /\ response_count = 0 => SpawnCalled(h)
             /\ (response_count > 0 /\ SpawnCalled(h))
                  => ThresholdRule(config, prompt_count',
                                   tokens_since_last_trigger')]_vars

\* C5 witness: the first Stop has dispatched a worker with both counters
\* below their thresholds.
C5_Witness ==
  /\ config.trigger_on_first_response
  /\ response_count = 1
  /\ nconn = 1
  /\ handlers[1].name = "Stop" /\ handlers[1].pc = "awaiting"
  /\ tokens_since_last_trigger < config.token_threshold
  /\ prompt_count < config.prompt_threshold

\* C6: in token mode, when the first-response rule does not apply, a Stop
\* event dispatches a worker iff the tokens accumulated since the last
\* dispatch, this event's included, reach token_threshold; and when that
\* dispatch has completed tokens_since_last_trigger is 0.
C6_TokenMode ==
  [][config.trigger_mode = "tokens" =>
       /\ \A e \in EventsNamed({"Stop"}) :
            (/\ ~(config.trigger_on_first_response /\ response_count = 0)
             /\ nconn' # nconn
             /\ HandleClient(e))
            => (SpawnCalled(nconn')
                 <=> tokens_since_last_trigger' >= config.token_threshold)
       /\ \A h \in Conns :
            (SpawnReturns(h) /\ handlers[h].name = "Stop")
            => tokens_since_last_trigger' = 0]_vars

\* C7: in prompt mode, when the first-response rule does not apply, a Stop
\* event dispatches a worker iff prompt_count is at least prompt_threshold;
\* and when that dispatch has completed prompt_count is 0.
C7_PromptMode ==
  [][config.trigger_mode = "prompts" =>
       /\ \A e \in EventsNamed({"Stop"}) :
            (/\ ~(config.trigger_on_first_response /\ response_count = 0)
             /\ nconn' # nconn
             /\ HandleClient(e))
            => (SpawnCalled(nconn')
                 <=> prompt_count' >= config.prompt_threshold)
       /\ \A h \in Conns :
            (SpawnReturns(h) /\ handlers[h].name = "Stop")
            => prompt_count' = 0]_vars

\* C8: every SessionEnd event calls _spawn_agent exactly once, whatever the
\* configuration and the counters, and when that call has returned the
\* running flag is false.
C8_SessionEndDispatches ==
  [][/\ \A e \in EventsNamed({"SessionEnd"}) :
          (nconn' # nconn /\ HandleClient(e))
          => /\ {w \in Conns : SpawnCalled(w)} = {nconn'}
             /\ worker'[nconn'] = "spawn_failed" => ~running'
     /\ \A h \in Conns :
          /\ (SpawnReturns(h) /\ handlers[h].name = "SessionEnd") => ~running'
          /\ SpawnCalled(h) => handlers[h].pc = "unused"]_vars

\* C8 witness: a SessionEnd that arrived with every counter at zero has had
\* its worker run to the end, and the overseer is no longer running.
C8_Witness ==
  /\ nconn = 1
  /\ handlers[1].pc = "done" /\ worker[1] = "reaped"
  /\ response_count = 0 /\ prompt_count = 0
  /\ tokens_since_last_trigger = 0 /\ last_transcript_length = 0
  /\ ~running

\* C9: prompt_count and tokens_since_last_trigger decrease only in the step
\* in which a dispatch completes, and then to 0 (not when the worker is
\* spawned, not while it runs); response_count never decreases.
C9_ResetOnlyOnCompletion ==
  [][/\ (\/ prompt_count' < prompt_count
         \/ tokens_since_last_trigger' < tokens_since_last_trigger)
        => /\ \E h \in Conns : SpawnReturns(h)
           /\ prompt_count' = 0
           /\ tokens_since_last_trigger' = 0
     /\ response_count' >= response_count]_vars

\* C9 witness: a worker is in flight and both counters still hold what the
\* events have accumulated.
C9_Witness ==
  \E h \in Conns :
    /\ InFlight(h) /\ Alive(h)
    /\ prompt_count > 0
    /\ tokens_since_last_trigger > 0

\* C10: last_transcript_length never decreases, also when an event moves
\* transcript_path to a shorter transcript or to a missing file.
C10_WatermarkMonotonic ==
  [][last_transcript_length' >= last_transcript_length]_vars

\* C10 witness: an event has set transcript_path to a transcript with fewer
\* entries than the watermark (or to no file).
C10_Witness ==
  /\ transcript_path # None
  /\ Len(ReadTranscript(transcript_path, fs)) < last_transcript_length


\* C11: when _calculate_new_tokens is called twice in a row on an unchanged
\* transcript, the second call returns 0 tokens and leaves the watermark
\* where the first call put it.
C11_SecondCallReturnsZero ==
  (arg.fn = "calc" /\ res # <<>>) => res[2] = <<0, res[1][2]>>

\* the first call counted new entries and advanced the watermark, the second
\* call has been made
C11_Witness ==
  /\ arg.fn = "calc"
  /\ res # <<>>
  /\ res[1][1] > 0
  /\ res[1][2] > arg.last


\* C12: a step of start's is_running test taken while the marker names a
\* live daemon changes neither the marker nor the socket path nor any
\* daemon process, and never leads to the fork or to the stale cleanup.
C12_StartWhileRunningIsNoOp ==
  [][\A c \in Clis :
       (/\ cli[c].site = "start"
        /\ cli[c].step \in {"exists", "read"}
        /\ pidFile \in Clis
        /\ LiveDaemon(pidFile)
        /\ cli'[c] # cli[c])
       => /\ pidFile' = pidFile
          /\ sockFile' = sockFile
          /\ daemon' = daemon
          /\ cli'[c].step \notin {"fork", "unlink_pid", "unlink_sock"}]_vars

\* a start command has returned without forking while another invocation's
\* daemon is serving and holds the marker and the socket
C12_Witness ==
  \E c \in Clis :
    /\ cli[c].cmd = "start"
    /\ cli[c].site = "done"
    /\ daemon[c] = "none"
    /\ pidFile \in Clis \ {c}
    /\ daemon[pidFile] = "serving"
    /\ sockFile = pidFile

\* C13: is_running returns False at once when the marker is absent; when
\* the marker names no live process it unlinks the marker, then the socket
\* path, then returns False, and start goes on to the fork; it returns True
\* only after reading a marker that names a live process, changing nothing.
C13_IsRunningOutcomes ==
  [][\A c \in Clis :
       (/\ cli[c].site \in {"notify", "start", "send"}
        /\ cli[c].step \in {"exists", "read", "unlink_pid", "unlink_sock"}
        /\ cli'[c] # cli[c])
       => /\ (cli[c].step = "exists" /\ pidFile = NoFile)
               => /\ IsRunningReturns(c, FALSE)
                  /\ UNCHANGED <<pidFile, sockFile, daemon>>
          /\ (cli[c].step = "read" /\ ~ProcessExists(pidFile))
               => cli'[c].step = "unlink_pid"
          /\ cli[c].step = "unlink_pid"
               => pidFile' = NoFile /\ cli'[c].step = "unlink_sock"
          /\ cli[c].step = "unlink_sock"
               => /\ sockFile' = NoFile
                  /\ IsRunningReturns(c, FALSE)
                  /\ cli[c].site = "start" => cli'[c].step = "fork"
          /\ IsRunningReturns(c, TRUE)
               => /\ cli[c].step = "read"
                  /\ ProcessExists(pidFile)
                  /\ UNCHANGED <<pidFile, sockFile, daemon>>]_vars

\* is_running found a marker naming a dead process and has unlinked it; the
\* stale socket file is the next thing it unlinks
C13_Witness ==
  \E c \in Clis :
    /\ cli[c].site = "start"
    /\ cli[c].step = "unlink_sock"
    /\ pidFile = NoFile
    /\ sockFile = StalePid
    /\ \A d \in Clis : daemon[d] = "none"


\* C14: a handler given a payload that is not JSON writes a response that
\* starts with "error: " and closes the connection, while the daemon keeps
\* running and no session field or counter changes.
C14_BadPayloadAnsweredError ==
  [][(/\ nconn' # nconn
      /\ HandleClientBadJson \/ HandleClientUndecodable)
     => /\ handlers'[nconn'] = Responded("error")
        /\ UNCHANGED <<running, pc_run, session_id, transcript_path, cwd,
                       prompt_count, response_count,
                       tokens_since_last_trigger,
                       last_transcript_length>>]_vars


\* C15: while the daemon has not stopped, every handler of a JSON event that
\* ends writes "ok", whether it dispatched no worker, Popen failed, the
\* worker exited with status 0 or another status, or the wait timed out.
C15_OkWhateverWorkerOutcome ==
  [][\A h \in Conns :
       (/\ handlers[h].pc \in {"unused", "awaiting"}
        /\ handlers'[h].pc \notin {"unused", "awaiting"}
        /\ pc_run' # "stopped"
        /\ ~HandleClientBadJson
        /\ ~HandleClientUndecodable)
       => handlers'[h] = Responded("ok")]_vars

\* one event was answered "ok" after its worker was killed on timeout,
\* another after Popen failed
C15_Witness ==
  \E h, g \in Conns :
    /\ handlers[h] = Responded("ok")
    /\ worker[h] = "killed"
    /\ handlers[g] = Responded("ok")
    /\ worker[g] = "spawn_failed"


\* C16: once run() has returned, the PID marker and the socket file are
\* absent and no worker subprocess of this overseer is still running.
C16_NothingLeftWhenStopped ==
  pc_run = "stopped"
    => /\ pidFile = NoFile
       /\ sockFile = NoFile
       /\ \A w \in Conns : ~Alive(w)

\* C17: a handler never starts reading and updating the session state and
\* the counters while the handler of another event is suspended, waiting for
\* its worker, with its response not yet written.
C17_HandlersDoNotInterleave ==
  [][(/\ nconn' # nconn
      /\ ~HandleClientBadJson
      /\ ~HandleClientUndecodable)
     => \A g \in Conns : ~InFlight(g)]_vars


\* C18: _read_transcript returns nothing for a null path or a missing file;
\* for a file it returns one entry per line that parses as JSON, the k-th
\* entry being the k-th such line of the file, so a line that fails to parse
\* removes nothing that follows it.
C18_ReadKeepsParsableLinesInOrder ==
  (arg.fn = "read" /\ res # <<>>)
    => LET out == res[1]
           lines == arg.lines
           parsable == {i \in 1..Len(lines) : ParsesAsJson(lines[i])}
       IN IF arg.path # "p_file" THEN out = <<>>
          ELSE /\ Len(out) = Cardinality(parsable)
               /\ \A i \in parsable :
                    out[Cardinality({j \in parsable : j <= i})] = lines[i]

\* a file whose second line is not JSON was read: the entries before and
\* after it are returned, in file order
C18_Witness ==
  /\ arg.fn = "read"
  /\ arg.path = "p_file"
  /\ Len(arg.lines) = MaxRead
  /\ arg.lines[1] = "A"
  /\ arg.lines[2] = "X"
  /\ arg.lines[MaxRead] = "H"
  /\ res # <<>>
  /\ Len(res[1]) = MaxRead - 1


\* C19: _should_trigger_agent answers True when trigger_on_first_response
\* is set, the event is Stop and response_count is 1; failing that, in
\* tokens mode it answers whether the tokens reach token_threshold, and in
\* any other mode whether the prompts reach prompt_threshold.
C19_DecisionIsReferencePolicy ==
  (arg.fn = "policy" /\ res # <<>>)
    => LET first == /\ arg.cfg.trigger_on_first_response
                    /\ arg.event_name = "Stop"
                    /\ arg.responses = 1
       IN /\ first => res[1] = TRUE
          /\ (~first /\ arg.cfg.trigger_mode = "tokens")
               => (res[1] <=> arg.tokens >= arg.cfg.token_threshold)
          /\ (~first /\ arg.cfg.trigger_mode # "tokens")
               => (res[1] <=> arg.prompts >= arg.cfg.prompt_threshold)

\* in tokens mode, with the first-response rule not applying, the decision
\* was False although the prompts had reached their threshold
C19_Witness ==
  /\ arg.fn = "policy"
  /\ res = <<FALSE>>
  /\ arg.cfg.trigger_mode = "tokens"
  /\ arg.cfg.trigger_on_first_response
  /\ arg.event_name = "Stop"
  /\ arg.responses = 2
  /\ arg.prompts >= arg.cfg.prompt_threshold
  /\ arg.cfg.prompt_threshold > 0

\* C20: an event named neither UserPromptSubmit, Stop nor SessionEnd leaves
\* prompt_count and response_count as they are, UserPromptSubmit adds exactly
\* 1 to prompt_count and leaves response_count as it is, and neither calls
\* _spawn_agent, whatever the counters and thresholds are.
C20_PromptsAndOtherEventsNeverDispatch ==
  [][\A e \in EventsNamed({"UserPromptSubmit", "Notification"}) :
       (/\ nconn' # nconn
        /\ HandleClient(e))
       => /\ prompt_count' =
               IF e.hook_event_name = "UserPromptSubmit"
                 THEN prompt_count + 1 ELSE prompt_count
          /\ response_count' = response_count
          /\ worker' = worker
          /\ active_agent' = active_agent
          /\ handlers'[nconn'] = Responded("ok")]_vars

\* in tokens mode every event so far was a UserPromptSubmit, the prompts and
\* the tokens have both reached their thresholds, and no worker was spawned
C20_Witness ==
  /\ nconn > 0
  /\ prompt_count = nconn
  /\ prompt_count >= config.prompt_threshold
  /\ config.trigger_mode = "tokens"
  /\ tokens_since_last_trigger >= config.token_threshold
  /\ response_count = 0
  /\ \A h \in Conns : worker[h] = "none"
  /\ \A h \in 1..nconn : handlers[h] = Responded("ok")


\* C21: when the handler of an event that spawned a worker writes its
\* response, that worker has ended or has been killed; the response is
\* never written while the worker is still running.
C21_ResponseAfterWorkerEnded ==
  [][\A h \in Conns :
       (/\ handlers[h].pc = "awaiting"
        /\ handlers'[h].pc = "done")
       => worker'[h] # "alive"]_vars


\* C22: once the running flag has been cleared, by a signal or at the end of
\* a SessionEnd event, the overseer eventually leaves the accept loop and
\* run() returns with the PID marker and the socket file removed.
C22_ShutdownObserved ==
  (pc_run = "serving" /\ ~running)
    ~> (pc_run = "stopped" /\ pidFile = NoFile /\ sockFile = NoFile)

\* run() has returned with both files removed although a handler was still
\* waiting for its worker when the loop ended
C22_Witness ==
  /\ pc_run = "stopped"
  /\ pidFile = NoFile
  /\ sockFile = NoFile
  /\ \E h \in Conns : handlers[h].pc = "cancelled"


\* C23: a notify invocation that has forked a daemon is in send_event only
\* once that daemon has written its marker and bound its socket.
C23_SendsOnceDaemonIsUp ==
  \A c \in Clis :
    (/\ cli[c].cmd = "notify"
     /\ cli[c].site = "send"
     /\ daemon[c] # "none")
    => daemon[c] \notin {"forked", "wrote_pid", "unlinked"}

\* C24: _cleanup_stale never unlinks a marker that names a live daemon nor a
\* socket path a live daemon has bound.
C24_StaleCleanupSparesLiveDaemon ==
  [][\A c \in Senders :
       /\ (cli[c].step = "unlink_pid" /\ cli'[c] # cli[c])
            => ~(pidFile \in Clis /\ LiveDaemon(pidFile))
       /\ (cli[c].step = "unlink_sock" /\ cli'[c] # cli[c])
            => ~(sockFile \in Clis /\ LiveDaemon(sockFile))]_vars

\* C25: the daemon process forked by a notify invocation never delivers the
\* event of that invocation itself.
C25_DaemonProcessNeverSends ==
  \A d \in Clis : cli[TailOf(d)].answer # "ok"


\* C26: in a session with one transcript that only grows by valid entries,
\* the tokens returned by all calculations so far add up to the tokens of
\* the first last_transcript_length entries of the transcript: every entry
\* below the watermark was counted once, none twice, none skipped.
C26_EveryEntryCountedOnce ==
  LET messages == ReadTranscript(transcript_path, fs)
  IN /\ last_transcript_length <= Len(messages)
     /\ res[1] = SumSeq([i \in 1..last_transcript_length |->
                           EntryTokens(messages[i])])

\* two events have each counted a part of the transcript, and the counter
\* was reset by a completed dispatch in between or afterwards
C26_Witness ==
  /\ nconn = 2
  /\ last_transcript_length = 2
  /\ res[1] >= 3
  /\ tokens_since_last_trigger < res[1]
  /\ tokens_since_last_trigger > 0

====
